---- MODULE Spec2Model ----
(***************************************************************************)
(* Event-driven hard-disk simulator skeleton (pseudo.py), the ordered      *)
(* streaming executor (streaming.py), the readers of the collision log     *)
(* (classes/event.py, frames.py, pressure_analysis_v2.py) and the frame    *)
(* selection of frames.py, of TP3-Event-Driven-Dynamics.                   *)
(*                                                                         *)
(* Numbers.  Positions, velocities and times are integers.  The scenarios  *)
(* drawn by Init put the particles on a lattice of the x axis with unit    *)
(* speed, which keeps every predicted contact time an integer; the vector  *)
(* arithmetic, the predictor and the resolver are written for the plane.   *)
(*                                                                         *)
(* The helpers marked "Fake" in pseudo.py (setup_simulation,               *)
(* collision_time, p_collision/w_collision, write_output) are placeholders *)
(* in the sources; they are modelled from sections 4.2, 4.4 and 4.5 of the *)
(* specification.  Everything else follows the Python text: the queue is a *)
(* list with append and pop, the validity test is the comparison with the  *)
(* Invalid sentinel, advance_particles is handed event.time.               *)
(*                                                                         *)
(* Reading of pseudo.py.  The loop is modelled as the algorithm it writes  *)
(* down: the module-level names particles, collideables and queue are the  *)
(* simulation state, event.a and event.b denote the participants, and the  *)
(* assignments to position and velocity take effect.  What the Python      *)
(* declarations make of these (frozen dataclasses, the binding of queue)   *)
(* is not part of specification Spec; SpecFrozen and SpecScopes, at the    *)
(* end of the module, take them as written.                                *)
(***************************************************************************)
EXTENDS Integers, Sequences, FiniteSets, TLC

VARIABLES
    particles,      \* pseudo.py:34  list[Particle]
    walls,          \* pseudo.py:35  the Wall members of collideables
    queue,          \* pseudo.py:64  PriorityQueue (a list of Event)
    steps,          \* pseudo.py:61  step budget of run_simulation
    step,           \* pseudo.py:67  iterations of the for loop completed
    current_time,   \* time of the last processed event (0 before the first)
    log,            \* collision log, one record per resolved event
    pc,             \* "SEEDING", "RUNNING", "DONE", "RAISED", or "COLLIDE"/"COLLIDED"
    exc,            \* the exception that left run_simulation, NoError if none
    hist,           \* history: what the last loop iteration saw (not program state)
    qborn           \* history: for each queue entry, Len(log) when it was appended

simvars == <<particles, walls, queue, steps, step, current_time, log, pc, exc, hist, qborn>>

VARIABLES
    count,          \* streaming.py:23  number of tasks
    task,           \* per task index: "submitted", "returned" or "failed"
    outqueue,       \* results of finished tasks awaiting their callback, oldest first
    cb,             \* the pool's result handler: "idle" or "locked" (inside done)
    shared_dict,    \* streaming.py:20  completion table: task index -> output
    lock,           \* owner of self.condition: "free", "consumer" or "callback"
    cpc,            \* position of the generator stream()
    next_id,        \* streaming.py:51
    yielded         \* outputs yielded by stream(), in order

streamvars == <<count, task, outqueue, cb, shared_dict, lock, cpc, next_id, yielded>>

VARIABLES
    field,          \* the time field of one line of events.txt, as characters
    read            \* per reader of events.txt: what parsing the field gave

readervars == <<field, read>>

VARIABLES
    event_times,    \* frames.py:9   the time column of events.txt, in thousandths
    fi,             \* frames.py:14  lines of event_times already visited
    previous,       \* frames.py:12
    checkpoints,    \* frames.py:11
    nframes         \* frames.py:35  what count() returned, 0 before the call

framevars == <<event_times, fi, previous, checkpoints, nframes>>

vars == <<simvars, streamvars, readervars, framevars>>

-----------------------------------------------------------------------------
(* Bounds of the explored scenarios *)

MaxParticles == 3
MaxCell == 3
MaxSteps == 5
MaxSpeed == 2
MaxCount == 3

MaxDigits == 1

MaxLines == 3

MaxIntervals == 2

(* Program constants *)

Inf == 1000000
Radius == 2
Pitch == 3 * Radius
HalfHeight == 2 * Radius
Processes == 12

NoError == "none"

-----------------------------------------------------------------------------
(* classes/vector.py *)

Vector(x, y) == [x |-> x, y |-> y]

VAdd(u, v) == Vector(u.x + v.x, u.y + v.y)

VSub(u, v) == Vector(u.x - v.x, u.y - v.y)

VMul(u, k) == Vector(u.x * k, u.y * k)

Dot(u, v) == u.x * v.x + u.y * v.y

(* classes/particle.py, classes/wall.py *)

Particle(x, y, vx, vy, r) ==
    [position |-> Vector(x, y), velocity |-> Vector(vx, vy), radious |-> r]

Wall(x1, y1, x2, y2) == [start |-> Vector(x1, y1), end |-> Vector(x2, y2)]

(* classes/event.py: time, type, a, b.  a is an index into particles; b is  *)
(* an index into collideables = particles followed by walls.               *)

Event(time, type, a, b) == [time |-> time, type |-> type, a |-> a, b |-> b]

Invalid == Event(0, "", 0, 0)

-----------------------------------------------------------------------------
(* collideables: the particles, then the walls *)

NumCollideables(ps, ws) == Len(ps) + Len(ws)

IsWall(ps, c) == c > Len(ps)

IsParticle(ps, c) == c >= 1 /\ c <= Len(ps)

WallOf(ps, ws, c) == ws[c - Len(ps)]

-----------------------------------------------------------------------------
(* Integer helpers of the predictor *)

Min(a, b) == IF a <= b THEN a ELSE b

Max(a, b) == IF a >= b THEN a ELSE b

ISqrt(n) == CHOOSE k \in 0..n : k * k <= n /\ (k + 1) * (k + 1) > n

-----------------------------------------------------------------------------
(* Collision Predictor (specification 4.2; collision_time is a stub in the  *)
(* sources).  PredictParticle and PredictWall return the delay until        *)
(* contact, or Inf when there is none.                                      *)

PredictParticle(p, q) ==
    LET dr == VSub(q.position, p.position)
        dv == VSub(q.velocity, p.velocity)
        sigma == p.radious + q.radious
        a == Dot(dv, dv)
        b == 2 * Dot(dr, dv)
        c == Dot(dr, dr) - sigma * sigma
        disc == b * b - 4 * a * c
    IN  IF b >= 0 \/ disc < 0 THEN Inf
        ELSE LET t == (-b - ISqrt(disc)) \div (2 * a)
             IN  IF t > 0 THEN t ELSE Inf

PredictWall(p, w) ==
    LET x == p.position.x
        y == p.position.y
        vx == p.velocity.x
        vy == p.velocity.y
        r == p.radious
    IN  IF w.start.x = w.end.x /\ vx # 0
        THEN LET edge == IF vx > 0 THEN w.start.x - r ELSE w.start.x + r
                 t == (edge - x) \div vx
                 yc == y + vy * t
             IN  IF (edge - x) * vx > 0
                    /\ yc >= Min(w.start.y, w.end.y) /\ yc <= Max(w.start.y, w.end.y)
                 THEN t ELSE Inf
        ELSE IF w.start.y = w.end.y /\ vy # 0
        THEN LET edge == IF vy > 0 THEN w.start.y - r ELSE w.start.y + r
                 t == (edge - y) \div vy
                 xc == x + vx * t
             IN  IF (edge - y) * vy > 0
                    /\ xc >= Min(w.start.x, w.end.x) /\ xc <= Max(w.start.x, w.end.x)
                 THEN t ELSE Inf
        ELSE Inf

(* collision_time(p, c): the event for particle p and collideable c, at the *)
(* absolute time now + delay; Event.time is Inf when no contact is predicted *)
collision_time(ps, ws, now, p, c) ==
    LET dt == IF IsWall(ps, c) THEN PredictWall(ps[p], WallOf(ps, ws, c))
              ELSE PredictParticle(ps[p], ps[c])
    IN  Event(IF dt < Inf THEN now + dt ELSE Inf,
              IF IsWall(ps, c) THEN "WALL" ELSE "PARTICLE", p, c)

-----------------------------------------------------------------------------
(* Collision Resolver helpers (specification 4.4; p_collision and           *)
(* w_collision are stubs in the sources).  Equal masses: Particle has no    *)
(* mass field.  The normal of two particles with the same centre is         *)
(* undefined (4.1); the loop below stops there, see IterateUndefined.       *)

Coincident(a, b) == Dot(VSub(a.position, b.position), VSub(a.position, b.position)) = 0

p_collision(a, b) ==
    LET dr == VSub(a.position, b.position)
        dv == VSub(a.velocity, b.velocity)
        d2 == Dot(dr, dr)
        j == Dot(dv, dr)
        imp == IF d2 = 0 THEN Vector(0, 0)
               ELSE Vector((j * dr.x) \div d2, (j * dr.y) \div d2)
    IN  <<VSub(a.velocity, imp), VAdd(b.velocity, imp)>>

w_collision(a, w) ==
    IF w.start.x = w.end.x THEN Vector(-a.velocity.x, a.velocity.y)
    ELSE IF w.start.y = w.end.y THEN Vector(a.velocity.x, -a.velocity.y)
    ELSE a.velocity

-----------------------------------------------------------------------------
(* pseudo.py *)

(* One pass of "for c in collideables" for particle p, appending to q *)
RECURSIVE AppendEvents(_, _, _, _, _, _)
AppendEvents(q, ps, ws, now, p, c) ==
    IF c > NumCollideables(ps, ws) THEN q
    ELSE LET event == collision_time(ps, ws, now, p, c)
         IN  AppendEvents(IF event.time < Inf THEN Append(q, event) ELSE q,
                          ps, ws, now, p, c + 1)

(* compute_collision_time that goes on to the particle after p as well *)
compute_collision_time_Neighbour(q, ps, ws, now, p) ==
    AppendEvents(AppendEvents(q, ps, ws, now, p, 1), ps, ws, now, (p % Len(ps)) + 1, 1)

(* compute_collision_time that first drops the queued events of p *)
compute_collision_time_Purge(q, ps, ws, now, p) ==
    AppendEvents(SelectSeq(q, LAMBDA e : e.a # p /\ e.b # p), ps, ws, now, p, 1)

compute_collision_time(q, ps, ws, now, p) == AppendEvents(q, ps, ws, now, p, 1)

RECURSIVE SeedFrom(_, _, _, _, _)
SeedFrom(q, ps, ws, now, p) ==
    IF p > Len(ps) THEN q
    ELSE SeedFrom(AppendEvents(q, ps, ws, now, p, 1), ps, ws, now, p + 1)

(* set_initial_collision_time whose outer loop misses the first particle *)
set_initial_collision_time_SkipFirst(q, ps, ws, now) == SeedFrom(q, ps, ws, now, 2)

set_initial_collision_time(q, ps, ws, now) == SeedFrom(q, ps, ws, now, 1)

advance_particles(ps, time) ==
    [i \in 1..Len(ps) |->
        [ps[i] EXCEPT !.position = VAdd(ps[i].position, VMul(ps[i].velocity, time))]]

(* collide with the second assignment of the tuple unpacking dropped *)
collide_FirstOnly(ps, ws, p, c) ==
    IF IsWall(ps, c)
    THEN [ps EXCEPT ![p].velocity = w_collision(ps[p], WallOf(ps, ws, c))]
    ELSE [ps EXCEPT ![p].velocity = p_collision(ps[p], ps[c])[1]]

(* collide with the wall branch left as the placeholder: velocity kept *)
collide_WallKept(ps, ws, p, c) ==
    IF IsWall(ps, c)
    THEN ps
    ELSE LET r == p_collision(ps[p], ps[c])
         IN  [[ps EXCEPT ![p].velocity = r[1]] EXCEPT ![c].velocity = r[2]]

(* collide that also snaps the particle back by its new velocity *)
collide_Reposition(ps, ws, p, c) ==
    IF IsWall(ps, c)
    THEN [ps EXCEPT ![p].velocity = w_collision(ps[p], WallOf(ps, ws, c)),
                    ![p].position = VAdd(ps[p].position, w_collision(ps[p], WallOf(ps, ws, c)))]
    ELSE LET r == p_collision(ps[p], ps[c])
         IN  [[ps EXCEPT ![p].velocity = r[1]] EXCEPT ![c].velocity = r[2]]

collide(ps, ws, p, c) ==
    IF IsWall(ps, c)
    THEN [ps EXCEPT ![p].velocity = w_collision(ps[p], WallOf(ps, ws, c))]
    ELSE LET r == p_collision(ps[p], ps[c])
         IN  [[ps EXCEPT ![p].velocity = r[1]] EXCEPT ![c].velocity = r[2]]

(* "while not event or event == Invalid: event = queue.pop()": list.pop()   *)
(* removes and returns the LAST element; popping an empty list raises       *)
(* IndexError.  Returns the event kept, the remaining list and how many     *)
(* entries were taken off.                                                  *)
RECURSIVE PopValid(_, _)
PopValid(q, n) ==
    IF Len(q) = 0 THEN [ok |-> FALSE, event |-> Invalid, rest |-> q, taken |-> n]
    ELSE LET event == q[Len(q)]
             rest == SubSeq(q, 1, Len(q) - 1)
         IN  IF event = Invalid THEN PopValid(rest, n + 1)
             ELSE [ok |-> TRUE, event |-> event, rest |-> rest, taken |-> n + 1]

-----------------------------------------------------------------------------
(* History kept for the properties: the state before the last iteration,   *)
(* the event it processed and whether that event was superseded.           *)

Participants(e) == IF e.type = "PARTICLE" THEN {e.a, e.b} ELSE {e.a}

(* e, appended when the log had `born` records, is superseded: a collision  *)
(* resolved since then involved one of its particles at an earlier time.    *)
Superseded(e, born, lg) ==
    \E j \in (born + 1)..Len(lg) :
        /\ Participants(lg[j]) \cap Participants(e) # {}
        /\ lg[j].time < e.time

NoHist(ps) == [initial |-> ps, prev |-> ps, prevTime |-> 0, event |-> Invalid,
               born |-> 0, stale |-> FALSE, inserted |-> <<>>]

RECURSIVE Repeat(_, _)
Repeat(v, n) == IF n <= 0 THEN <<>> ELSE <<v>> \o Repeat(v, n - 1)

-----------------------------------------------------------------------------
(* Scenarios: particles of radius Radius on the lattice Pitch * (1..MaxCell) *)
(* of the x axis, unit speed along x; no walls, or one vertical wall at     *)
(* each end of the lattice.                                                 *)

Cells == 1..MaxCell

BoxWalls == << Wall(0, -HalfHeight, 0, HalfHeight),
               Wall(Pitch * (MaxCell + 1), -HalfHeight,
                    Pitch * (MaxCell + 1), HalfHeight) >>

Injective(f) == \A i, j \in DOMAIN f : i # j => f[i] # f[j]

EmptyDict == [k \in {} |-> 0]

ReadersIdle ==
    /\ field = <<>>
    /\ read = <<>>

FramesIdle ==
    /\ event_times = <<>>
    /\ fi = 0
    /\ previous = 0
    /\ checkpoints = <<>>
    /\ nframes = 0

StreamIdle ==
    /\ count = 0
    /\ task = <<>>
    /\ outqueue = <<>>
    /\ cb = "idle"
    /\ shared_dict = EmptyDict
    /\ lock = "free"
    /\ cpc = "unused"
    /\ next_id = 0
    /\ yielded = <<>>

(* run_simulation up to "queue = PriorityQueue()" *)
Init ==
    /\ \E n \in 1..MaxParticles :
       \E cell \in [1..n -> Cells], dir \in [1..n -> {-1, 1}] :
          /\ Injective(cell)
          /\ particles = [i \in 1..n |-> Particle(Pitch * cell[i], 0, dir[i], 0, Radius)]
    /\ walls \in {<<>>, BoxWalls}
    /\ steps \in 0..MaxSteps
    /\ queue = <<>>
    /\ step = 0
    /\ current_time = 0
    /\ log = <<>>
    /\ pc = "SEEDING"
    /\ exc = NoError
    /\ hist = NoHist(particles)
    /\ qborn = <<>>
    /\ StreamIdle
    /\ ReadersIdle
    /\ FramesIdle

(* set_initial_collision_time() *)
Seed ==
    /\ pc = "SEEDING"
    /\ queue' = set_initial_collision_time(queue, particles, walls, current_time)
    /\ qborn' = Repeat(0, Len(queue'))
    /\ pc' = "RUNNING"
    /\ UNCHANGED <<particles, walls, steps, step, current_time, log, exc, hist>>
    /\ UNCHANGED streamvars
    /\ UNCHANGED readervars
    /\ UNCHANGED framevars

(* One iteration of "for _ in range(steps)" that finds an event to process *)
Iterate ==
    /\ pc = "RUNNING"
    /\ step < steps
    /\ LET r == PopValid(queue, 0)
           event == r.event
           born == qborn[Len(queue) - r.taken + 1]
           moved == advance_particles(particles, event.time)
           after == collide(moved, walls, event.a, event.b)
           q1 == compute_collision_time(r.rest, after, walls, event.time, event.a)
           q2 == IF IsParticle(after, event.b)
                 THEN compute_collision_time(q1, after, walls, event.time, event.b)
                 ELSE q1
       IN  /\ r.ok
           /\ ~(IsParticle(moved, event.b) /\ Coincident(moved[event.a], moved[event.b]))
           /\ particles' = after
           /\ queue' = q2
           /\ current_time' = event.time
           /\ log' = Append(log, Event(event.time, event.type, event.a, event.b))
           /\ qborn' = SubSeq(qborn, 1, Len(r.rest))
                         \o Repeat(Len(log) + 1, Len(q2) - Len(r.rest))
           /\ hist' = [initial |-> hist.initial, prev |-> particles, prevTime |-> current_time,
                       event |-> event, born |-> born,
                       stale |-> Superseded(event, born, log),
                       inserted |-> SubSeq(q2, Len(r.rest) + 1, Len(q2))]
    /\ step' = step + 1
    /\ UNCHANGED <<walls, steps, pc, exc>>
    /\ UNCHANGED streamvars
    /\ UNCHANGED readervars
    /\ UNCHANGED framevars

(* The popped event is resolved with both centres at the same point: the   *)
(* contact normal of p_collision is a division by zero                      *)
IterateUndefined ==
    /\ pc = "RUNNING"
    /\ step < steps
    /\ LET r == PopValid(queue, 0)
           event == r.event
           moved == advance_particles(particles, event.time)
       IN  /\ r.ok
           /\ IsParticle(moved, event.b) /\ Coincident(moved[event.a], moved[event.b])
           /\ particles' = moved
           /\ queue' = r.rest
           /\ qborn' = SubSeq(qborn, 1, Len(r.rest))
    /\ pc' = "RAISED"
    /\ exc' = "ZeroDivisionError"
    /\ UNCHANGED <<walls, steps, step, current_time, log, hist>>
    /\ UNCHANGED streamvars
    /\ UNCHANGED readervars
    /\ UNCHANGED framevars

(* queue.pop() on an empty list: IndexError leaves run_simulation *)
PopEmpty ==
    /\ pc = "RUNNING"
    /\ step < steps
    /\ ~PopValid(queue, 0).ok
    /\ queue' = <<>>
    /\ qborn' = <<>>
    /\ pc' = "RAISED"
    /\ exc' = "IndexError"
    /\ UNCHANGED <<particles, walls, steps, step, current_time, log, hist>>
    /\ UNCHANGED streamvars
    /\ UNCHANGED readervars
    /\ UNCHANGED framevars

(* range(steps) is exhausted: run_simulation returns *)
Finish ==
    /\ pc = "RUNNING"
    /\ step = steps
    /\ pc' = "DONE"
    /\ UNCHANGED <<particles, walls, queue, steps, step, current_time, log, exc, hist, qborn>>
    /\ UNCHANGED streamvars
    /\ UNCHANGED readervars
    /\ UNCHANGED framevars

Next == Seed \/ Iterate \/ IterateUndefined \/ PopEmpty \/ Finish

Spec == Init /\ [][Next]_vars

(* run_simulation is one thread that keeps running until it returns or raises *)
SpecFair == Spec /\ WF_vars(Next)

-----------------------------------------------------------------------------
(* Properties of the simulation loop *)

Resolved == step >= 1

Dist2(p, q) == Dot(VSub(p.position, q.position), VSub(p.position, q.position))

NoOverlap(ps) ==
    \A i, j \in 1..Len(ps) :
        i < j => Dist2(ps[i], ps[j]) >= (ps[i].radious + ps[j].radious) * (ps[i].radious + ps[j].radious)

(* C1: every event that is popped and processed has a scheduled time greater *)
(* than or equal to the simulation time at which it is popped, so the        *)
(* simulation time never decreases from one iteration to the next.           *)
C1_TimeNeverDecreases ==
    Resolved => hist.event.time >= hist.prevTime /\ current_time >= hist.prevTime

(* C2: lazy invalidation: an event one of whose particles took part, after   *)
(* the event was created, in a resolved collision with a strictly smaller    *)
(* time is discarded when popped; the resolver never acts on it.             *)
C2_SupersededNeverResolved == Resolved => ~hist.stale

(* C3: the collision log holds one record per resolved event, in resolution  *)
(* order, and its time column is non-decreasing from line to line.           *)
C3_LogOrdered ==
    /\ Len(log) = step
    /\ Resolved => log[Len(log)] = hist.event
    /\ \A i \in 1..(Len(log) - 1) : log[i].time <= log[i + 1].time

(* C6: non-overlap: starting from particles that do not overlap, after every *)
(* loop iteration the centres of every two particles are at least the sum of *)
(* their radii apart.                                                        *)
C6_NonOverlap ==
    (NoOverlap(hist.initial) /\ pc \in {"RUNNING", "DONE"}) => NoOverlap(particles)

(* C7: empty-queue termination: when the queue is empty as the loop needs    *)
(* the next event, the loop stops in DONE with no error.                     *)
C7_EmptyQueueStopsInDone ==
    (queue = <<>> /\ pc \notin {"SEEDING", "RUNNING"}) => (pc = "DONE" /\ exc = NoError)

HeadOn(ps) ==
    /\ Len(ps) = 2
    /\ ps[1].velocity = VMul(ps[2].velocity, -1)
    /\ Dot(VSub(ps[2].position, ps[1].position), VSub(ps[2].velocity, ps[1].velocity)) < 0

(* C10: head-on scenario: two equal-mass particles approaching along one     *)
(* axis with velocities v and -v and no walls: the run resolves exactly one  *)
(* particle-particle event, after which both velocities are negated.         *)
C10_HeadOnSingleCollision ==
    (HeadOn(hist.initial) /\ walls = <<>>) =>
        /\ Len(log) <= 1
        /\ (pc = "DONE" /\ steps >= 1) => Len(log) = 1
        /\ Len(log) = 1 =>
              /\ log[1].type = "PARTICLE"
              /\ \A i \in 1..2 :
                    particles[i].velocity = VMul(hist.initial[i].velocity, -1)

(* The state is the one a completed loop iteration left: hist describes it *)
Iterated == step >= 1 /\ pc \in {"RUNNING", "DONE"}

(* What the last iteration's pop left in the queue, and the log it saw *)
Remaining == SubSeq(queue, 1, Len(queue) - Len(hist.inserted))

LogBefore == SubSeq(log, 1, Len(log) - 1)

(* The collision counter of particle i under spec 4.3: resolved collisions *)
(* it took part in.                                                        *)
CollisionsOf(i, lg) == Cardinality({ j \in 1..Len(lg) : i \in Participants(lg[j]) })

(* e, appended when the log had `born` records, is stale under spec 4.3:   *)
(* the counter of one of its particles has moved since.                    *)
Stale(e, born, lg) ==
    \E i \in Participants(e) :
        CollisionsOf(i, lg) # CollisionsOf(i, SubSeq(lg, 1, born))

PairBefore(e, f) == e.a < f.a \/ (e.a = f.a /\ e.b < f.b)

(* C13: tie-break: of two valid events with the same scheduled time the one  *)
(* with the smaller participant pair (a, b) is processed first, whatever the *)
(* insertion order.                                                          *)
C13_TieBreakByPair ==
    (Iterated /\ ~Stale(hist.event, hist.born, LogBefore)) =>
        \A i \in 1..Len(Remaining) :
            ( /\ Remaining[i].time = hist.event.time
              /\ ~Stale(Remaining[i], qborn[i], LogBefore)
              /\ Participants(Remaining[i]) # Participants(hist.event) )
            => ~PairBefore(Remaining[i], hist.event)

(* C15: each extraction in RUNNING removes and returns an event whose time   *)
(* is the minimum over all events in the queue, for every insertion order.   *)
C15_ExtractsMinimum ==
    Iterated => \A i \in 1..Len(Remaining) : hist.event.time <= Remaining[i].time

(* C16: a popped event is resolved exactly when the current collision        *)
(* counter of each of its particles equals the counter recorded when the     *)
(* event was created; otherwise it is discarded and the next one extracted.  *)
C16_ResolvedIffCountersMatch ==
    Iterated => ~Stale(hist.event, hist.born, LogBefore)

(* C17: resolving a collision increases by exactly one the collision counter *)
(* of each particle taking part and leaves every other counter unchanged;    *)
(* no counter ever decreases.                                                *)
C17_CountersIncrement ==
    Iterated =>
        \A i \in 1..Len(particles) :
            /\ "collisions" \in DOMAIN particles[i]
            /\ "collisions" \in DOMAIN hist.prev[i]
            /\ particles[i].collisions =
                  hist.prev[i].collisions + (IF i \in Participants(hist.event) THEN 1 ELSE 0)

(* C18: popping a stale event changes only the queue: the current time, the  *)
(* positions, velocities and counters and the log are as before, and no      *)
(* event is inserted.                                                        *)
C18_DiscardChangesOnlyQueue ==
    (step >= 1 /\ Len(log) >= 1 /\ Stale(hist.event, hist.born, LogBefore)) =>
        /\ log[Len(log)] # hist.event
        /\ pc \in {"RUNNING", "DONE"} =>
              /\ particles = hist.prev
              /\ current_time = hist.prevTime
              /\ hist.inserted = <<>>

(* C19: processing a valid event moves every particle from its previous      *)
(* position by its velocity times the elapsed interval event.time minus      *)
(* current_time, not by the absolute time, and then current_time equals      *)
(* event.time.                                                               *)
C19_AdvanceByElapsed ==
    Iterated =>
        /\ \A i \in 1..Len(particles) :
              particles[i].position =
                  VAdd(hist.prev[i].position,
                       VMul(hist.prev[i].velocity, hist.event.time - hist.prevTime))
        /\ current_time = hist.event.time

(* Positions in seq of the events of particle p against collideable c *)
EventsFor(seq, p, c) == { k \in 1..Len(seq) : seq[k].a = p /\ seq[k].b = c }

(* A contact of particle p with collideable c is predicted from this state *)
Predicted(p, c) == collision_time(particles, walls, current_time, p, c).time < Inf

(* C21: after a valid event is resolved, events are computed and inserted    *)
(* only for its particle participants: for each of them one event for every  *)
(* other entity with a finite predicted time, none for an entity with no     *)
(* predicted contact, and none on behalf of a particle that took no part.    *)
C21_RecomputeOnlyParticipants ==
    Iterated =>
        /\ \A k \in 1..Len(hist.inserted) :
              /\ hist.inserted[k].a \in Participants(hist.event)
              /\ hist.inserted[k] = collision_time(particles, walls, current_time,
                                                   hist.inserted[k].a, hist.inserted[k].b)
        /\ \A p \in Participants(hist.event) :
           \A c \in 1..NumCollideables(particles, walls) :
              Cardinality(EventsFor(hist.inserted, p, c)) = IF Predicted(p, c) THEN 1 ELSE 0

(* A particle-particle event was resolved, events were inserted for both of *)
(* its particles, and a third particle with a predicted contact got none    *)
C21_Witness ==
    /\ Iterated
    /\ hist.event.type = "PARTICLE"
    /\ \A p \in Participants(hist.event) :
          \E k \in 1..Len(hist.inserted) : hist.inserted[k].a = p
    /\ \E n \in 1..Len(particles) :
          /\ n \notin Participants(hist.event)
          /\ \E c \in 1..NumCollideables(particles, walls) : Predicted(n, c)
    /\ \E p \in Participants(hist.event), c \in 1..NumCollideables(particles, walls) :
          c # p /\ ~Predicted(p, c)

(* Seeding is over and nothing has been popped yet *)
Seeded == pc = "RUNNING" /\ step = 0

(* C22: when SEEDING finishes and before the first pop, the queue holds an   *)
(* event for every (particle, other entity) pair with a finite predicted     *)
(* collision time and no event for a pair with no predicted collision.       *)
C22_SeedingComplete ==
    Seeded =>
        /\ \A p \in 1..Len(particles) :
           \A c \in 1..NumCollideables(particles, walls) :
              /\ (c # p /\ Predicted(p, c)) => EventsFor(queue, p, c) # {}
              /\ ~Predicted(p, c) => EventsFor(queue, p, c) = {}
        /\ \A k \in 1..Len(queue) :
              queue[k] = collision_time(particles, walls, current_time, queue[k].a, queue[k].b)

(* Seeding queued a particle-particle and a particle-wall event and left    *)
(* out a pair with no predicted contact                                     *)
C22_Witness ==
    /\ Seeded
    /\ \E k \in 1..Len(queue) : queue[k].type = "PARTICLE"
    /\ \E k \in 1..Len(queue) : queue[k].type = "WALL"
    /\ \E p \in 1..Len(particles), c \in 1..NumCollideables(particles, walls) :
          c # p /\ ~Predicted(p, c)

(* C23: the loop moves through SEEDING, RUNNING and DONE in that order and    *)
(* always reaches DONE; with a step budget of N it resolves at most N        *)
(* events, and nothing is popped before seeding has completed or after DONE. *)
C23_ReachesDone ==
    /\ [][pc' # pc => <<pc, pc'>> \in {<<"SEEDING", "RUNNING">>, <<"RUNNING", "DONE">>}]_vars
    /\ [][(pc \in {"SEEDING", "DONE"}) => (log' = log /\ step' = step)]_vars
    /\ [](Len(log) <= steps)
    /\ <>(pc = "DONE")

(* C24: events leave the queue only by extraction at the head of the loop:   *)
(* resolving a collision and inserting new events never removes or alters    *)
(* an event already in the queue, so an event superseded by a collision      *)
(* stays in the queue until it is popped.                                    *)
C24_OnlyExtractionRemoves ==
    [][\E k \in 0..1 :
          /\ k = 1 => (pc = "RUNNING" /\ step < steps /\ queue # <<>>
                          /\ k = PopValid(queue, 0).taken)
          /\ Len(queue') >= Len(queue) - k
          /\ SubSeq(queue', 1, Len(queue) - k) = SubSeq(queue, 1, Len(queue) - k)]_vars

(* A collision has been resolved and an event it superseded is still queued *)
C24_Witness ==
    /\ Iterated
    /\ hist.inserted # <<>>
    /\ \E i \in 1..Len(Remaining) : Stale(Remaining[i], qborn[i], log)

(* Two log records are the same contact: the same two particles at the     *)
(* same time                                                                *)
SameContact(e, f) ==
    /\ e.type = "PARTICLE" /\ f.type = "PARTICLE"
    /\ Participants(e) = Participants(f)
    /\ e.time = f.time

(* C28: seeding and re-seeding enqueue a pair of particles in both orders,   *)
(* (p, q) and (q, p), for the same predicted contact; after one of the two   *)
(* has been resolved the other is never resolved, so a contact changes the   *)
(* velocities at most once and is logged at most once.                       *)
C28_ContactResolvedOnce ==
    /\ Seeded =>
          \A k \in 1..Len(queue) :
              queue[k].type = "PARTICLE" =>
                  \E l \in 1..Len(queue) :
                      /\ queue[l].a = queue[k].b /\ queue[l].b = queue[k].a
                      /\ queue[l].time = queue[k].time
    /\ \A i, j \in 1..Len(log) : i < j => ~SameContact(log[i], log[j])

-----------------------------------------------------------------------------
(* collide() on its own: two particles in contact along an axis, with any   *)
(* velocities of components up to MaxSpeed, a third particle that takes no  *)
(* part, and a vertical and a horizontal wall touching particle 1.          *)

Speeds == (-MaxSpeed)..MaxSpeed

Contacts == { Vector(2 * Radius, 0), Vector(-2 * Radius, 0),
              Vector(0, 2 * Radius), Vector(0, -2 * Radius) }

TouchingWalls == << Wall(-Radius, -HalfHeight, -Radius, HalfHeight),
                    Wall(-HalfHeight, -Radius, HalfHeight, -Radius) >>

InitCollide ==
    /\ \E d \in Contacts, v1x, v1y, v2x, v2y \in Speeds :
          particles = << Particle(0, 0, v1x, v1y, Radius),
                         Particle(d.x, d.y, v2x, v2y, Radius),
                         Particle(Pitch, Pitch, 1, -1, Radius) >>
    /\ walls = TouchingWalls
    /\ steps = 0
    /\ queue = <<>>
    /\ step = 0
    /\ current_time = 0
    /\ log = <<>>
    /\ pc = "COLLIDE"
    /\ exc = NoError
    /\ hist = NoHist(particles)
    /\ qborn = <<>>
    /\ StreamIdle
    /\ ReadersIdle
    /\ FramesIdle

Resolve(a, b) ==
    /\ pc = "COLLIDE"
    /\ particles' = collide(particles, walls, a, b)
    /\ hist' = [hist EXCEPT !.prev = particles,
                            !.event = Event(0, IF IsWall(particles, b) THEN "WALL"
                                               ELSE "PARTICLE", a, b)]
    /\ pc' = "COLLIDED"
    /\ UNCHANGED <<walls, queue, steps, step, current_time, log, exc, qborn>>
    /\ UNCHANGED streamvars
    /\ UNCHANGED readervars
    /\ UNCHANGED framevars

(* collide(p, c) with c a Particle *)
ResolvePair == \E a, b \in 1..2 : a # b /\ Resolve(a, b)

(* collide(p, c) with c a Wall *)
ResolveWall ==
    \E a \in 1..2, w \in 1..Len(walls) : Resolve(a, Len(particles) + w)

NextCollide == ResolvePair \/ ResolveWall

SpecCollide == InitCollide /\ [][NextCollide]_vars

(* Twice the kinetic energy, and the momentum, of unit-mass particles *)
RECURSIVE SumOver(_, _, _)
SumOver(ps, i, which) ==
    IF i > Len(ps) THEN 0
    ELSE SumOver(ps, i + 1, which)
         + CASE which = "ke" -> Dot(ps[i].velocity, ps[i].velocity)
             [] which = "px" -> ps[i].velocity.x
             [] which = "py" -> ps[i].velocity.y

Energy(ps) == SumOver(ps, 1, "ke")

Momentum(ps) == Vector(SumOver(ps, 1, "px"), SumOver(ps, 1, "py"))

(* C5: conservation: collide() leaves the total kinetic energy unchanged for *)
(* particle-particle and particle-wall collisions, and the total momentum    *)
(* unchanged for particle-particle collisions.                               *)
C5_Conservation ==
    pc = "COLLIDED" =>
        /\ Energy(particles) = Energy(hist.prev)
        /\ hist.event.type = "PARTICLE" => Momentum(particles) = Momentum(hist.prev)

C5_Witness ==
    /\ pc = "COLLIDED"
    /\ hist.event.type = "PARTICLE"
    /\ particles[1].velocity # hist.prev[1].velocity
    /\ particles[2].velocity # hist.prev[2].velocity
    /\ Dot(particles[1].velocity, particles[1].velocity)
         # Dot(hist.prev[1].velocity, hist.prev[1].velocity)

IsVertical(w) == w.start.x = w.end.x

IsHorizontal(w) == w.start.y = w.end.y

C20_CollideFrame ==
    pc = "COLLIDED" =>
        /\ \A i \in 1..Len(particles) :
              /\ particles[i].position = hist.prev[i].position
              /\ particles[i].radious = hist.prev[i].radious
              /\ i \notin Participants(hist.event)
                    => particles[i].velocity = hist.prev[i].velocity
        /\ Len(particles) = Len(hist.prev)
        /\ walls = TouchingWalls
        /\ queue = <<>>

C20_Witness ==
    /\ pc = "COLLIDED"
    /\ hist.event.type = "WALL"
    /\ particles[hist.event.a].velocity # hist.prev[hist.event.a].velocity
    /\ \E i \in 1..Len(particles) :
          i \notin Participants(hist.event) /\ particles[i].velocity.x # 0

-----------------------------------------------------------------------------
(* streaming.py: SequentialStreamingExecutor *)

SimIdle ==
    /\ particles = <<>>
    /\ walls = <<>>
    /\ queue = <<>>
    /\ steps = 0
    /\ step = 0
    /\ current_time = 0
    /\ log = <<>>
    /\ pc = "unused"
    /\ exc = NoError
    /\ hist = NoHist(<<>>)
    /\ qborn = <<>>

Tasks == 0..(count - 1)

(* frames.next(f) returns (f, <particles of frame f>) *)
TaskResult(i) == <<i, [frame |-> i]>>

(* self.shared_dict[task_id] = output *)
DictStore(d, k, v) == [x \in (DOMAIN d) \cup {k} |-> IF x = k THEN v ELSE d[x]]

(* self.shared_dict.pop(next_id): the dictionary without the key *)
DictWithout(d, k) == [x \in (DOMAIN d) \ {k} |-> d[x]]

(* done(): "task_id, output = result; self.shared_dict[task_id] = output" *)
StoredBy_Arrival(d, result) == DictStore(d, Cardinality(DOMAIN d), result[2])

StoredBy(d, result) == DictStore(d, result[1], result[2])

(* lambda: next_id in self.shared_dict *)
Available(d, id) == id \in DOMAIN d

(* self.condition.notify_all(): a consumer blocked in wait() is woken *)
NotifyAll_Dropped(c) == c

NotifyAll(c) == IF c = "waiting" THEN "notified" ELSE c

(* __init__: every task is handed to the pool by apply_async *)
InitStream ==
    /\ SimIdle
    /\ ReadersIdle
    /\ FramesIdle
    /\ count \in 0..MaxCount
    /\ task = [i \in Tasks |-> "submitted"]
    /\ outqueue = <<>>
    /\ cb = "idle"
    /\ shared_dict = EmptyDict
    /\ lock = "free"
    /\ cpc = "loop"
    /\ next_id = 0
    /\ yielded = <<>>

(* A worker may run task i when fewer than Processes earlier tasks are still running *)
CanRun(i) ==
    /\ task[i] = "submitted"
    /\ Cardinality({j \in Tasks : j < i /\ task[j] = "submitted"}) < Processes

(* A worker finishes task i: its result is queued for the result handler *)
TaskReturn ==
    \E i \in Tasks :
        /\ CanRun(i)
        /\ task' = [task EXCEPT ![i] = "returned"]
        /\ outqueue' = Append(outqueue, TaskResult(i))
        /\ UNCHANGED <<count, cb, shared_dict, lock, cpc, next_id, yielded>>
        /\ UNCHANGED simvars
        /\ UNCHANGED readervars
        /\ UNCHANGED framevars

(* Task i raises and the error is handed to done like a result *)
TaskFail_Stored ==
    \E i \in Tasks :
        /\ CanRun(i)
        /\ task' = [task EXCEPT ![i] = "failed"]
        /\ outqueue' = Append(outqueue, <<i, [frame |-> -1]>>)
        /\ UNCHANGED <<count, cb, shared_dict, lock, cpc, next_id, yielded>>
        /\ UNCHANGED simvars
        /\ UNCHANGED readervars
        /\ UNCHANGED framevars

(* Task i raises: only error_callback runs, which prints *)
TaskFail ==
    \E i \in Tasks :
        /\ CanRun(i)
        /\ task' = [task EXCEPT ![i] = "failed"]
        /\ UNCHANGED <<count, outqueue, cb, shared_dict, lock, cpc, next_id, yielded>>
        /\ UNCHANGED simvars
        /\ UNCHANGED readervars
        /\ UNCHANGED framevars

(* done(): "with self.condition:" acquires the lock *)
DoneAcquire ==
    /\ cb = "idle"
    /\ outqueue # <<>>
    /\ lock = "free"
    /\ lock' = "callback"
    /\ cb' = "locked"
    /\ UNCHANGED <<count, task, outqueue, shared_dict, cpc, next_id, yielded>>
    /\ UNCHANGED simvars
    /\ UNCHANGED readervars
    /\ UNCHANGED framevars

(* done(): store, notify_all, leave the with block *)
DoneStore ==
    /\ cb = "locked"
    /\ shared_dict' = StoredBy(shared_dict, Head(outqueue))
    /\ cpc' = NotifyAll(cpc)
    /\ outqueue' = Tail(outqueue)
    /\ lock' = "free"
    /\ cb' = "idle"
    /\ UNCHANGED <<count, task, next_id, yielded>>
    /\ UNCHANGED simvars
    /\ UNCHANGED readervars
    /\ UNCHANGED framevars

(* stream(): "while next_id < self.count" holds *)
StreamLoop ==
    /\ cpc = "loop"
    /\ next_id < count
    /\ cpc' = "enter"
    /\ UNCHANGED <<count, task, outqueue, cb, shared_dict, lock, next_id, yielded>>
    /\ UNCHANGED simvars
    /\ UNCHANGED readervars
    /\ UNCHANGED framevars

(* stream(): the while condition fails, the generator is exhausted *)
StreamFinish ==
    /\ cpc = "loop"
    /\ next_id >= count
    /\ cpc' = "finished"
    /\ UNCHANGED <<count, task, outqueue, cb, shared_dict, lock, next_id, yielded>>
    /\ UNCHANGED simvars
    /\ UNCHANGED readervars
    /\ UNCHANGED framevars

(* stream(): "with self.condition:" acquires the lock *)
StreamAcquire ==
    /\ cpc = "enter"
    /\ lock = "free"
    /\ lock' = "consumer"
    /\ cpc' = "test"
    /\ UNCHANGED <<count, task, outqueue, cb, shared_dict, next_id, yielded>>
    /\ UNCHANGED simvars
    /\ UNCHANGED readervars
    /\ UNCHANGED framevars

(* stream() with the yield after the with block: the lock is released     *)
(* before the generator is suspended                                        *)
StreamTake_Released ==
    /\ cpc = "test"
    /\ Available(shared_dict, next_id)
    /\ yielded' = Append(yielded, shared_dict[next_id])
    /\ shared_dict' = DictWithout(shared_dict, next_id)
    /\ next_id' = next_id + 1
    /\ cpc' = "yielded"
    /\ lock' = "free"
    /\ UNCHANGED <<count, task, outqueue, cb>>
    /\ UNCHANGED simvars
    /\ UNCHANGED readervars
    /\ UNCHANGED framevars

(* wait_for: the predicate holds; pop, next_id += 1, yield result (the      *)
(* generator is suspended inside the with block, the lock still held)       *)
StreamTake ==
    /\ cpc = "test"
    /\ Available(shared_dict, next_id)
    /\ yielded' = Append(yielded, shared_dict[next_id])
    /\ shared_dict' = DictWithout(shared_dict, next_id)
    /\ next_id' = next_id + 1
    /\ cpc' = "yielded"
    /\ UNCHANGED <<count, task, outqueue, cb, lock>>
    /\ UNCHANGED simvars
    /\ UNCHANGED readervars
    /\ UNCHANGED framevars

(* wait_for: the predicate fails; wait() releases the lock and blocks *)
StreamWait ==
    /\ cpc = "test"
    /\ ~Available(shared_dict, next_id)
    /\ lock' = "free"
    /\ cpc' = "waiting"
    /\ UNCHANGED <<count, task, outqueue, cb, shared_dict, next_id, yielded>>
    /\ UNCHANGED simvars
    /\ UNCHANGED readervars
    /\ UNCHANGED framevars

(* wait(): notified, the lock is taken again and the predicate re-evaluated *)
StreamWake ==
    /\ cpc = "notified"
    /\ lock = "free"
    /\ lock' = "consumer"
    /\ cpc' = "test"
    /\ UNCHANGED <<count, task, outqueue, cb, shared_dict, next_id, yielded>>
    /\ UNCHANGED simvars
    /\ UNCHANGED readervars
    /\ UNCHANGED framevars

(* The caller asks for the next item: the generator resumes after yield and *)
(* leaves the with block                                                    *)
StreamResume ==
    /\ cpc = "yielded"
    /\ lock' = "free"
    /\ cpc' = "loop"
    /\ UNCHANGED <<count, task, outqueue, cb, shared_dict, next_id, yielded>>
    /\ UNCHANGED simvars
    /\ UNCHANGED readervars
    /\ UNCHANGED framevars

NextStream ==
    \/ TaskReturn \/ TaskFail \/ DoneAcquire \/ DoneStore
    \/ StreamLoop \/ StreamFinish \/ StreamAcquire \/ StreamTake
    \/ StreamWait \/ StreamWake \/ StreamResume

SpecStream == InitStream /\ [][NextStream]_vars

(* The result handler thread and the consuming loop of the caller keep      *)
(* running; nothing is assumed about the worker tasks.                      *)
SpecStreamFair ==
    /\ InitStream /\ [][NextStream]_vars
    /\ WF_vars(DoneAcquire) /\ WF_vars(DoneStore)
    /\ WF_vars(StreamLoop) /\ WF_vars(StreamFinish) /\ WF_vars(StreamAcquire)
    /\ WF_vars(StreamTake) /\ WF_vars(StreamWait) /\ WF_vars(StreamWake)
    /\ WF_vars(StreamResume)

(* C8: stream() yields the task results in strictly ascending task index    *)
(* 0, 1, ..., each index exactly once, whatever the completion order.        *)
C8_YieldsInOrder ==
    /\ Len(yielded) = next_id
    /\ next_id <= count
    /\ \A k \in 1..Len(yielded) : yielded[k] = TaskResult(k - 1)[2]
    /\ cpc = "finished" => Len(yielded) = count

(* Index 2 completed and was stored before index 1, and index 0 was yielded *)
C8_Witness ==
    /\ Len(yielded) >= 1
    /\ Available(shared_dict, 2)
    /\ ~Available(shared_dict, 1)
    /\ task[1] = "submitted"

(* C9: the consumer waits only while the result of the next expected index  *)
(* is absent; once that result is stored it is eventually yielded (no lost  *)
(* wake-up); if every task completes, all count results are yielded and     *)
(* the generator terminates.                                                *)
C9_NoLostWakeup ==
    /\ [](cpc = "waiting" => ~Available(shared_dict, next_id))
    /\ \A k \in 0..MaxCount :
          (next_id = k /\ Available(shared_dict, k)) ~> (Len(yielded) > k)
    /\ (\A i \in Tasks : task[i] = "returned")
          ~> (cpc = "finished" /\ Len(yielded) = count)

(* The consumer was blocked in wait() when done stored the result of the    *)
(* next expected index and notified it; a later index is in the table too   *)
C9_Witness ==
    /\ cpc = "notified"
    /\ Available(shared_dict, next_id)
    /\ next_id >= 1
    /\ Available(shared_dict, next_id + 1)

(* The consumer is inside wait_for for index k: blocked, woken and waiting  *)
(* for the lock, or re-evaluating the predicate                             *)
WaitingAt(k) == next_id = k /\ cpc \in {"waiting", "notified", "test"}

(* C29: if the task for index k fails, so that only the error callback runs *)
(* and no result for k is ever stored, stream() yields exactly the results  *)
(* for 0..k-1 in order and then waits forever at index k: it never skips k, *)
(* never yields a later index and never terminates on its own.              *)
C29_FailedTaskBlocksStream ==
    /\ [](\A k \in Tasks :
            task[k] = "failed" =>
                /\ next_id <= k
                /\ Len(yielded) <= k
                /\ ~Available(shared_dict, k)
                /\ cpc # "finished")
    /\ \A k \in 0..MaxCount :
          (k \in Tasks /\ task[k] = "failed" /\ \A j \in 0..(k - 1) : task[j] = "returned")
              ~> [](Len(yielded) = k /\ WaitingAt(k))

(* Index 1 failed, index 0 was yielded, index 2 is in the table and the     *)
(* consumer is blocked at index 1                                           *)
C29_Witness ==
    /\ count = 3
    /\ task[1] = "failed"
    /\ Len(yielded) = 1
    /\ Available(shared_dict, 2)
    /\ next_id = 1
    /\ cpc = "waiting"

(* C30: stream() yields each result while still holding the condition lock, *)
(* so between a yield and the caller's request for the next result no done  *)
(* callback can store a completion; completions are recorded only while the *)
(* consumer is inside wait_for or between iterations, and every write to    *)
(* and removal from the shared table happens with the lock held.            *)
C30_YieldHoldsLock ==
    /\ [](cpc = "yielded" => (lock = "consumer" /\ cb = "idle"))
    /\ [][cpc = "yielded" => shared_dict' = shared_dict]_vars
    /\ [][(DOMAIN shared_dict') \ (DOMAIN shared_dict) # {}
            => (lock = "callback" /\ cpc \in {"waiting", "notified", "loop", "enter", "finished"})]_vars
    /\ [][(DOMAIN shared_dict) \ (DOMAIN shared_dict') # {} => lock = "consumer"]_vars

(* A result has been yielded and a finished task's completion is waiting    *)
(* for the lock the suspended generator holds                               *)
C30_Witness ==
    /\ cpc = "yielded"
    /\ lock = "consumer"
    /\ cb = "idle"
    /\ outqueue # <<>>

-----------------------------------------------------------------------------
(* Readers of events.txt: how each one parses the time field of a line *)

DigitChars == <<"0", "1", "2", "3", "4", "5", "6", "7", "8", "9">>

IsDigit(c) == \E k \in 1..Len(DigitChars) : DigitChars[k] = c

DigitValue(c) == (CHOOSE k \in 1..Len(DigitChars) : DigitChars[k] = c) - 1

(* A parsed number num / 10^scale, or the exception the parse raised *)
Parsed(num, scale) == [ok |-> TRUE, num |-> num, scale |-> scale, exc |-> NoError]

Raised(e) == [ok |-> FALSE, num |-> 0, scale |-> 0, exc |-> e]

Unread == [ok |-> FALSE, num |-> 0, scale |-> 0, exc |-> "unread"]

RECURSIVE Normal(_, _)
Normal(num, scale) ==
    IF scale > 0 /\ num % 10 = 0 THEN Normal(num \div 10, scale - 1) ELSE Parsed(num, scale)

RECURSIVE DigitsValue(_)
DigitsValue(s) ==
    IF s = <<>> THEN 0
    ELSE 10 * DigitsValue(SubSeq(s, 1, Len(s) - 1)) + DigitValue(s[Len(s)])

Positions(s, c) == { k \in 1..Len(s) : s[k] = c }

Without(s, k) == SubSeq(s, 1, k - 1) \o SubSeq(s, k + 1, Len(s))

(* float(str) on a run of digits with at most one "."; any other character *)
(* raises ValueError.                                                       *)
float(s) ==
    LET dots == Positions(s, ".")
    IN  IF \/ \E k \in 1..Len(s) : ~IsDigit(s[k]) /\ s[k] # "."
           \/ Cardinality(dots) > 1
           \/ Cardinality(dots) = Len(s)
        THEN Raised("ValueError")
        ELSE IF dots = {}
             THEN Normal(DigitsValue(s), 0)
             ELSE LET k == CHOOSE d \in dots : TRUE
                  IN  Normal(DigitsValue(Without(s, k)), Len(s) - k)

(* str.replace(old, new) for one-character old and new *)
replace(s, old, new) == [k \in 1..Len(s) |-> IF s[k] = old THEN new ELSE s[k]]

parse_float(value_str) == float(replace(value_str, ",", "."))

Readers == {"Event", "checkpoints", "parse_float"}

Separators == {".", ","}

DigitRuns(lo) ==
    UNION { [1..n -> { DigitChars[k] : k \in 1..Len(DigitChars) }] : n \in lo..MaxDigits }

(* The time fields a writer can produce: digits, then nothing or a        *)
(* separator and digits.                                                   *)
TimeFields ==
    DigitRuns(1) \cup
    { i \o <<sep>> \o f : i \in DigitRuns(1), sep \in Separators, f \in DigitRuns(1) }

InitReaders ==
    /\ SimIdle
    /\ StreamIdle
    /\ FramesIdle
    /\ field \in TimeFields
    /\ read = [r \in Readers |-> Unread]

Reads(r, result) ==
    /\ read # <<>>
    /\ read[r] = Unread
    /\ read' = [read EXCEPT ![r] = result]
    /\ UNCHANGED field
    /\ UNCHANGED simvars
    /\ UNCHANGED streamvars
    /\ UNCHANGED framevars

ReadEvent == Reads("Event", float(field))

ReadCheckpoints == Reads("checkpoints", float(field))

ReadPressure == Reads("parse_float", parse_float(field))

NextReaders == ReadEvent \/ ReadCheckpoints \/ ReadPressure

SpecReaders == InitReaders /\ [][NextReaders]_vars

(* C14: every reader of the collision log parses the time field to the same *)
(* value whether its decimal part is written with a comma or with a dot,    *)
(* and fails on neither.                                                    *)
C14_ReadersAcceptBothSeparators ==
    \A r \in DOMAIN read :
        read[r] # Unread =>
            /\ read[r].ok
            /\ read[r] = float(replace(field, ",", "."))

-----------------------------------------------------------------------------
(* frames.py: checkpoints() and count().  Times are in thousandths of a    *)
(* second, so that the cadence 0.015 is the integer Cadence.               *)

Cadence == 15

(* The log times tried: around the multiples of the cadence *)
TimeGrid == { k * Cadence + d : k \in 0..MaxIntervals, d \in 0..2 }

LogTimes == UNION { [1..n -> TimeGrid] : n \in 0..MaxLines }

(* "if time > previous + 0.015" with >= for > *)
Selected_AtLeast(time, prev) == time >= prev + Cadence

(* "if time > previous + 0.015" *)
Selected(time, prev) == time > prev + Cadence

InitFrames ==
    /\ SimIdle
    /\ StreamIdle
    /\ ReadersIdle
    /\ event_times \in LogTimes
    /\ fi = 0
    /\ previous = 0
    /\ checkpoints = <<>>
    /\ nframes = 0

(* One pass of "for i, time in enumerate(event_times)" *)
CheckpointsStep ==
    /\ fi < Len(event_times)
    /\ LET time == event_times[fi + 1]
       IN  IF Selected(time, previous)
           THEN /\ checkpoints' = Append(checkpoints, fi)
                /\ previous' = time
           ELSE UNCHANGED <<checkpoints, previous>>
    /\ fi' = fi + 1
    /\ UNCHANGED <<event_times, nframes>>
    /\ UNCHANGED simvars
    /\ UNCHANGED streamvars
    /\ UNCHANGED readervars

(* count(): 1 + len(checkpoints()) *)
FramesCount ==
    /\ fi = Len(event_times)
    /\ nframes = 0
    /\ nframes' = 1 + Len(checkpoints)
    /\ UNCHANGED <<event_times, fi, previous, checkpoints>>
    /\ UNCHANGED simvars
    /\ UNCHANGED streamvars
    /\ UNCHANGED readervars

NextFrames == CheckpointsStep \/ FramesCount

SpecFrames == InitFrames /\ [][NextFrames]_vars

(* Time of the line with index i (from 0), and the time selected last      *)
(* before line i, 0 when there is none                                      *)
TimeOf(i) == event_times[i + 1]

LastSelectedBefore(i) ==
    LET earlier == { k \in 1..Len(checkpoints) : checkpoints[k] < i }
    IN  IF earlier = {} THEN 0
        ELSE TimeOf(checkpoints[CHOOSE k \in earlier : \A l \in earlier : l <= k])

(* C26: checkpoints() scans the log times in order with a running value      *)
(* previous, initially 0, and returns the strictly increasing indices of the *)
(* lines whose time exceeds previous by more than the cadence, setting       *)
(* previous to that time: a selected time is more than one cadence after the *)
(* time selected before it, an unselected line is within one cadence of the  *)
(* last time selected before it, and count() is 1 plus their number.         *)
C26_Checkpoints ==
    /\ \A k \in 1..Len(checkpoints) :
          /\ checkpoints[k] \in 0..(fi - 1)
          /\ k > 1 => checkpoints[k - 1] < checkpoints[k]
          /\ TimeOf(checkpoints[k]) > LastSelectedBefore(checkpoints[k]) + Cadence
    /\ \A i \in 0..(fi - 1) :
          (\A k \in 1..Len(checkpoints) : checkpoints[k] # i)
              => TimeOf(i) <= LastSelectedBefore(i) + Cadence
    /\ previous = LastSelectedBefore(fi)
    /\ nframes # 0 => (fi = Len(event_times) /\ nframes = 1 + Len(checkpoints))

(* Two lines were selected, a line exactly one cadence after the selected   *)
(* time was passed over, and count() returned                                *)
C26_Witness ==
    /\ nframes = 3
    /\ \E i \in 0..(fi - 1) :
          /\ \A k \in 1..Len(checkpoints) : checkpoints[k] # i
          /\ LastSelectedBefore(i) > 0
          /\ TimeOf(i) = LastSelectedBefore(i) + Cadence

-----------------------------------------------------------------------------
(* pseudo.py with the Python declarations taken as written, one at a time:  *)
(* SpecFrozen keeps the loop of Spec and gives attribute assignment the     *)
(* meaning the dataclass decorator of Particle gives it; SpecScopes keeps   *)
(* it and resolves the name queue as Python does in each function.          *)

(* @dataclass(frozen=True, init=False) class Particle *)
ParticleFrozen == TRUE

(* obj.name = value on a dataclass instance: a frozen dataclass raises      *)
(* FrozenInstanceError and leaves the object as it was                      *)
setattr(frozen, obj, name, value) ==
    IF frozen THEN [ok |-> FALSE, obj |-> obj, exc |-> "FrozenInstanceError"]
    ELSE [ok |-> TRUE, obj |-> [obj EXCEPT ![name] = value], exc |-> NoError]

(* advance_particles(time): the assignments in list order, up to the first  *)
(* one that raises                                                          *)
RECURSIVE AdvanceFrom(_, _, _)
AdvanceFrom(ps, time, i) ==
    IF i > Len(ps) THEN [ok |-> TRUE, particles |-> ps, exc |-> NoError]
    ELSE LET r == setattr(ParticleFrozen, ps[i], "position",
                          VAdd(ps[i].position, VMul(ps[i].velocity, time)))
         IN  IF r.ok THEN AdvanceFrom([ps EXCEPT ![i] = r.obj], time, i + 1)
             ELSE [ok |-> FALSE, particles |-> ps, exc |-> r.exc]

(* An iteration whose advance_particles raises: the exception leaves        *)
(* run_simulation with the event popped and nothing else done               *)
IterateFrozen ==
    /\ pc = "RUNNING"
    /\ step < steps
    /\ LET r == PopValid(queue, 0)
           moved == AdvanceFrom(particles, r.event.time, 1)
       IN  /\ r.ok
           /\ ~moved.ok
           /\ particles' = moved.particles
           /\ queue' = r.rest
           /\ qborn' = SubSeq(qborn, 1, Len(r.rest))
           /\ exc' = moved.exc
           /\ hist' = [hist EXCEPT !.prev = particles, !.prevTime = current_time,
                                   !.event = r.event]
    /\ pc' = "RAISED"
    /\ UNCHANGED <<walls, steps, step, current_time, log>>
    /\ UNCHANGED streamvars
    /\ UNCHANGED readervars
    /\ UNCHANGED framevars

NextFrozen == Seed \/ IterateFrozen \/ PopEmpty \/ Finish

SpecFrozen == Init /\ [][NextFrozen]_vars

(* C25: free-flight advancement and collision resolution update position and *)
(* velocity of the existing particle objects in place and complete without   *)
(* an error; the set of particles is the same in every state of the run and  *)
(* the walls never change.                                                   *)
C25_InPlaceUpdates ==
    /\ exc # "FrozenInstanceError"
    /\ Len(particles) = Len(hist.initial)
    /\ walls \in {<<>>, BoxWalls}
    /\ hist.event # Invalid =>
          \A i \in 1..Len(particles) :
              particles[i].position =
                  VAdd(hist.prev[i].position, VMul(hist.prev[i].velocity, hist.event.time))

(* "queue: PriorityQueue" at module level is an annotation without a value: *)
(* it binds nothing, and "queue = PriorityQueue()" in run_simulation binds  *)
(* a local name.                                                            *)
ModuleQueueBound == FALSE

(* set_initial_collision_time reaches "queue.append(event)": the name is    *)
(* looked up in the module and is not defined                               *)
SeedUnbound ==
    /\ pc = "SEEDING"
    /\ ~ModuleQueueBound
    /\ set_initial_collision_time(<<>>, particles, walls, current_time) # <<>>
    /\ pc' = "RAISED"
    /\ exc' = "NameError"
    /\ UNCHANGED <<particles, walls, queue, steps, step, current_time, log, hist, qborn>>
    /\ UNCHANGED streamvars
    /\ UNCHANGED readervars
    /\ UNCHANGED framevars

(* No contact is predicted: seeding never reaches the append *)
SeedNothing ==
    /\ pc = "SEEDING"
    /\ set_initial_collision_time(<<>>, particles, walls, current_time) = <<>>
    /\ pc' = "RUNNING"
    /\ UNCHANGED <<particles, walls, queue, steps, step, current_time, log, exc, hist, qborn>>
    /\ UNCHANGED streamvars
    /\ UNCHANGED readervars
    /\ UNCHANGED framevars

NextScopes == SeedUnbound \/ SeedNothing \/ PopEmpty \/ Finish

SpecScopes == Init /\ [][NextScopes]_vars

(* C27: there is a single event queue: every event inserted by               *)
(* set_initial_collision_time and compute_collision_time goes into the queue *)
(* that run_simulation pops from, so it is available to a later pop.         *)
C27_SingleQueue ==
    /\ exc # "NameError"
    /\ Seeded =>
          \A p \in 1..Len(particles) :
          \A c \in 1..NumCollideables(particles, walls) :
              Predicted(p, c) => EventsFor(queue, p, c) # {}

====
